---- MODULE Spec2Model ----
(***************************************************************************)
(* A model of the Flitsmeister client (src/flitsmeister/flitsmeister.py)   *)
(* and of its data model (src/flitsmeister/models.py).                     *)
(*                                                                         *)
(* Python values are modelled as follows.  A dict (and an object's         *)
(* attribute dictionary) is a function whose DOMAIN is the set of keys     *)
(* (attributes) present.  JSON scalars and lists are opaque strings: the   *)
(* decoders only copy them.  Python's None is the string "None", which is  *)
(* in none of the input alphabets.  An outcome of a call is a record       *)
(* [kind, exc, value]: a returned value or a raised exception.             *)
(*                                                                         *)
(* The client's calls are coroutines: a call runs without interruption     *)
(* from one await to the next, so a step of the model is the code between  *)
(* two awaits.  The request timeout is not counted in seconds: the timeout *)
(* block can expire at either await inside it.  The wall clock is read by  *)
(* jwt when a login response is decoded; the reading is an input of that   *)
(* step.                                                                   *)
(***************************************************************************)
EXTENDS Integers, FiniteSets, Sequences, Bags, TLC

VARIABLES
    session,          \* FM._session: "None", "supplied" (by the caller) or "created"
    close_session,    \* FM._close_session
    auth,             \* FM._auth: <<>> (None) or <<a>>, a an Auth object
    ctorAuth,         \* the auth argument FM.__init__ was given
    jwtVerifyExp,     \* whether the installed jwt library validates exp in this call
    sessionsCreated,  \* number of ClientSession() constructions by the client
    sessionClosed,    \* the session's own closed state
    closeCalls,       \* number of session.close() calls made by the client
    tasks,            \* the calls in flight: a bag of [op, pc, sent]
    lastRequest,      \* <<>> or <<r>>, r the latest session.request(...) call
    last,             \* report of the call that ended last
    loginReturned,    \* a login() call has returned an Auth
    input,            \* decoder check: the decoder and its argument
    output            \* decoder check: <<>> or <<outcome>>

vars == <<session, close_session, auth, ctorAuth, jwtVerifyExp, sessionsCreated,
          sessionClosed, closeCalls, tasks, lastRequest, last,
          loginReturned, input, output>>

clientVars == <<session, close_session, auth, ctorAuth, sessionsCreated,
                sessionClosed, closeCalls, tasks, lastRequest, last,
                loginReturned>>

(***************************************************************************)
(* Bounds.                                                                 *)
(***************************************************************************)
MaxTasks == 2
MaxCloses == 2
MaxTime == 2

Times == 0..MaxTime

(***************************************************************************)
(* Python values.                                                          *)
(***************************************************************************)
None == "None"
EmptyMap == [k \in {} |-> None]

Ok(v) == [kind |-> "ok", exc |-> "", value |-> v]
Raise(e) == [kind |-> "raise", exc |-> e, value |-> EmptyMap]

\* dict.get(key): the value, or None for an absent key
Get(d, k) == IF k \in DOMAIN d THEN d[k] ELSE None

Restrict(f, S) == [k \in S |-> f[k]]

\* what FM._request returns: a parsed JSON document or the body's text
PyDict(m) == [py |-> "dict", map |-> m]
PyList == [py |-> "list", map |-> EmptyMap]
PyStr == [py |-> "str", map |-> EmptyMap]

(***************************************************************************)
(* Access tokens.  A token is an opaque string; JwtPayload is the claim    *)
(* set its payload segment holds.  "garbage" is not a JWT at all.          *)
(***************************************************************************)
JwtPayload ==
    ( "jwt.u1.exp1" :> [sub |-> "u1", exp |-> 1] ) @@
    ( "jwt.u1.noexp" :> [sub |-> "u1"] )

AccessTokens == DOMAIN JwtPayload \cup {"garbage"}
SessionTokens == {"r:s1"}

(***************************************************************************)
(* jwt.decode(token, options={"verify_signature": False}), models.py:27.   *)
(* A token that is no str/bytes (None) or no JWT raises DecodeError.       *)
(* Whether the exp claim is validated although the signature is not        *)
(* depends on the installed library (PyJWT 2 switches verify_exp off with  *)
(* verify_signature, PyJWT 1 validates the claims all the same), so the    *)
(* model carries both: verifyExp.  An exp in the past then raises          *)
(* ExpiredSignatureError.                                                  *)
(***************************************************************************)
JwtDecode(token, now, verifyExp) ==
    IF token \notin DOMAIN JwtPayload
    THEN Raise("DecodeError")
    ELSE LET claims == JwtPayload[token]
         IN  IF verifyExp /\ "exp" \in DOMAIN claims /\ claims["exp"] < now
             THEN Raise("ExpiredSignatureError")
             ELSE Ok(claims)

\* datetime.fromtimestamp(seconds): a datetime, here by its point on the time line
FromTimestamp(seconds) == [datetime |-> seconds]

(***************************************************************************)
(* Auth.__init__, models.py:22-29.  The two tokens are stored first; the   *)
(* derived attributes are set inside suppress(jwt.ExpiredSignatureError),  *)
(* so that error leaves them unset and any other error leaves __init__.    *)
(* datetime.fromtimestamp(None) is a TypeError.                            *)
(***************************************************************************)
AuthInit(session_token, access_token, now, verifyExp) ==
    LET base == [session_token |-> session_token, access_token |-> access_token]
        decoded_jwt == JwtDecode(access_token, now, verifyExp)
    IN  IF decoded_jwt.kind = "raise"
        THEN IF decoded_jwt.exc = "ExpiredSignatureError"
             THEN Ok(base)
             ELSE decoded_jwt
        ELSE IF "exp" \notin DOMAIN decoded_jwt.value
             THEN Raise("TypeError")
             ELSE Ok(base @@
                     [object_id |-> Get(decoded_jwt.value, "sub"),
                      access_token_expires |->
                          FromTimestamp(decoded_jwt.value["exp"])])

\* Auth.from_dict, models.py:36-43
AuthFromDict(data, now, verifyExp) ==
    IF data.py # "dict"
    THEN Raise("AttributeError")
    ELSE AuthInit(Get(data.map, "sessionToken"), Get(data.map, "accessToken"),
                  now, verifyExp)

(***************************************************************************)
(* User.from_dict, models.py:66-86.  data.get("statistics").get(...) is    *)
(* an AttributeError on None when the payload has no "statistics".         *)
(***************************************************************************)
UserFromDict(data) ==
    IF data.py # "dict"
    THEN Raise("AttributeError")
    ELSE LET d == data.map
         IN  IF "statistics" \notin DOMAIN d
             THEN Raise("AttributeError")
             ELSE LET s == d["statistics"]
                  IN  Ok([fourfouroneone_ev_enabled |-> Get(d, "4411EvEnabled"),
                          fourfouroneone_parking_enabled |-> Get(d, "4411ParkingEnabled"),
                          fourfouroneone_payment_method_set |-> Get(d, "4411PaymentMethodSet"),
                          access_token |-> Get(d, "accessToken"),
                          first_name |-> Get(d, "firstName"),
                          gender |-> Get(d, "gender"),
                          has_4411_account |-> Get(d, "has4411Account"),
                          object_id |-> Get(d, "objectId"),
                          parking_enabled |-> Get(d, "parkingEnabled"),
                          session_token |-> Get(d, "sessionToken"),
                          statistics_top_speed |-> Get(s, "topSpeed"),
                          statistics_top_sprint |-> Get(s, "topSprint"),
                          statistics_travel_distance |-> Get(s, "travelDistance"),
                          statistics_travel_time |-> Get(s, "travelTime"),
                          username |-> Get(d, "username"),
                          vehicle_type |-> Get(d, "vehicleType")])

(***************************************************************************)
(* Statistics.from_dict, models.py:107-126.  data = data.get("result") is  *)
(* None without the envelope, and None.get is an AttributeError.           *)
(***************************************************************************)
StatisticsFromDict(data) ==
    IF data.py # "dict"
    THEN Raise("AttributeError")
    ELSE IF "result" \notin DOMAIN data.map
         THEN Raise("AttributeError")
         ELSE LET d == data.map["result"]
              IN  Ok([ambassador |-> Get(d, "ambassador"),
                      countries_visited |-> Get(d, "countries_visited"),
                      fines_avoided |-> Get(d, "fines_avoided"),
                      km_driven |-> Get(d, "km_driven"),
                      navigation_finished |-> Get(d, "navigation_finished"),
                      parked_once |-> Get(d, "parked_once"),
                      provinces_visited |-> Get(d, "provinces_visited"),
                      recruiter |-> Get(d, "recruiter"),
                      sec_driven |-> Get(d, "sec_driven"),
                      times_in_traffic |-> Get(d, "times_in_traffic"),
                      top_100_sprint_ms |-> Get(d, "top_100_sprint_ms"),
                      top_consecutive_days |-> Get(d, "top_consecutive_days"),
                      top_speed |-> Get(d, "top_speed"),
                      total_ratings |-> Get(d, "total_ratings")])

(***************************************************************************)
(* Payloads: the documented responses (flitsmeister.py:75-135, 150-186),   *)
(* of which an input keeps any subset of the keys.                         *)
(***************************************************************************)
UserSample ==
    ( "4411EvEnabled" :> "false" ) @@ ( "4411ParkingEnabled" :> "true" ) @@
    ( "4411PaymentMethodSet" :> "true" ) @@ ( "accessToken" :> "jwt.u1.exp1" ) @@
    ( "firstName" :> "Dana" ) @@ ( "gender" :> "1" ) @@
    ( "has4411Account" :> "true" ) @@ ( "objectId" :> "u1" ) @@
    ( "parkingEnabled" :> "true" ) @@ ( "sessionToken" :> "r:s1" ) @@
    ( "username" :> "dana@example.org" ) @@ ( "vehicleType" :> "1" )

UserStatisticsSample ==
    [topSpeed |-> "413", topSprint |-> "1", travelDistance |-> "59",
     travelTime |-> "158824560000"]

StatisticsSample ==
    [ambassador |-> "true", countries_visited |-> "[NL,DE,BE]",
     fines_avoided |-> "210", km_driven |-> "63550",
     navigation_finished |-> "301", parked_once |-> "true",
     provinces_visited |-> "[NL-ZH,NL-UT]", recruiter |-> "0",
     sec_driven |-> "162900000", times_in_traffic |-> "500",
     top_100_sprint_ms |-> "4000", top_consecutive_days |-> "61",
     top_speed |-> "413", total_ratings |-> "450"]

UserPayload(K, S) == Restrict(UserSample, K) @@ ("statistics" :> Restrict(UserStatisticsSample, S))
UserPayloadFlat(K) == Restrict(UserSample, K)
StatisticsPayload(K) == ("result" :> Restrict(StatisticsSample, K))
LoginPayload(K, st, at) == Restrict(("sessionToken" :> st) @@ ("accessToken" :> at), K)

(***************************************************************************)
(* The client, flitsmeister.py.  The calls in flight are a bag: a call is  *)
(* [op, pc, sent], pc the await it is suspended at and sent the number of  *)
(* session.request calls it has made.                                      *)
(***************************************************************************)
NoAuth == <<>>

\* flitsmeister.py:18
ENDPOINT == "https://account.flitsmeister.app/"

One(task) == SetToBag({task})
InFlight == BagCardinality(tasks)

\* what the caller of an operation observes when it ends
\* (at: the await it ended at; cause: what ended it; status: the HTTP status)
Report(op, at, cause, status, sent, result) ==
    [op |-> op, at |-> at, cause |-> cause, status |-> status, sent |-> sent,
     result |-> result]
NoReport == Report("none", "none", "none", 0, 0, Ok(EmptyMap))

Usernames == {"dana@example.org"}
Passwords == {"secret"}
HttpStatuses == {200, 401}
\* the declared types that contain "application/json", and others ("": no header)
JsonContentTypes == {"application/json; charset=utf-8"}
ContentTypes == JsonContentTypes \cup {"text/html", ""}

\* response bodies: text that is no JSON, a JSON list, or a JSON object
MalformedBody == [shape |-> "malformed", map |-> EmptyMap]
ListBody == [shape |-> "list", map |-> EmptyMap]
JsonBody(m) == [shape |-> "object", map |-> m]
ErrorPayload == [code |-> "101", error |-> "Invalid username/password."]

CommonBodies == {MalformedBody, ListBody, JsonBody(ErrorPayload)}

LoginBodies ==
    CommonBodies \cup
    {JsonBody(LoginPayload(K, st, at)) :
         K \in {{"sessionToken", "accessToken"}, {"sessionToken"}},
         st \in SessionTokens, at \in AccessTokens}

UserBodies ==
    CommonBodies \cup
    {JsonBody(UserPayload(DOMAIN UserSample, DOMAIN UserStatisticsSample)),
     JsonBody(UserPayload(DOMAIN UserSample \ {"firstName"}, {"topSpeed"})),
     JsonBody(UserPayloadFlat(DOMAIN UserSample))}

StatisticsBodies ==
    CommonBodies \cup
    {JsonBody(StatisticsPayload(DOMAIN StatisticsSample)),
     JsonBody(StatisticsPayload({"km_driven"}))}

\* a body that is not declared JSON is returned as text whatever it holds
Bodies(op, ctype) ==
    IF ctype \notin JsonContentTypes THEN {MalformedBody}
    ELSE CASE op = "login" -> LoginBodies
           [] op = "user" -> UserBodies
           [] OTHER -> StatisticsBodies

\* the clock readings that matter to an operation: only login reads the clock
ClockReadings(op) == IF op = "login" THEN Times ELSE {0}

\* the Auth objects a caller can have built before constructing the client
CtorAuths(verifyExp) ==
    {NoAuth} \cup
    {<<r.value>> : r \in {x \in {AuthInit(st, at, now, verifyExp) :
                                    st \in SessionTokens, at \in AccessTokens,
                                    now \in Times} : x.kind = "ok"}}

\* (variant: a closed session is replaced by a new one)
NeedsSessionOrClosed == session = "None" \/ sessionClosed

\* FM._request, flitsmeister.py:199: the session is created when there is none
NeedsSession == session = "None"

\* (variant: the session token is never attached)
HeadersWithoutToken(a) == ("Content-Type" :> "application/json")

\* FM._request, flitsmeister.py:203-205
Headers(a) ==
    IF a # NoAuth
    THEN ("Content-Type" :> "application/json") @@
         ("x-parse-session-token" :> a[1]["session_token"])
    ELSE ("Content-Type" :> "application/json")

(***************************************************************************)
(* FM._request up to its first suspension, flitsmeister.py:199-216: the    *)
(* lazy session, the headers and the session.request(...) call.  A closed  *)
(* session refuses the call with a RuntimeError.                           *)
(***************************************************************************)
Request(op, path, method, data) ==
    /\ session' = IF NeedsSession THEN "created" ELSE session
    /\ close_session' = IF NeedsSession THEN TRUE ELSE close_session
    /\ sessionsCreated' = IF NeedsSession THEN sessionsCreated + 1 ELSE sessionsCreated
    /\ sessionClosed' = IF NeedsSession THEN FALSE ELSE sessionClosed
    /\ lastRequest' = <<[method |-> method, url |-> ENDPOINT \o path, path |-> path,
                         json |-> data, headers |-> Headers(auth)]>>
    /\ IF sessionClosed /\ ~NeedsSession
       THEN /\ tasks' = tasks
            /\ last' = Report(op, "request", "closed", 0, 1, Raise("RuntimeError"))
       ELSE /\ tasks' = tasks (+) One([op |-> op, pc |-> "request", sent |-> 1])
            /\ last' = last
    /\ UNCHANGED <<auth, ctorAuth, jwtVerifyExp, closeCalls, loginReturned,
                   input, output>>

\* an operation that ends before any request
Fail(op, exc) ==
    /\ last' = Report(op, "none", "none", 0, 0, Raise(exc))
    /\ UNCHANGED <<session, close_session, auth, ctorAuth, jwtVerifyExp,
                   sessionsCreated, sessionClosed, closeCalls, tasks,
                   lastRequest, loginReturned, input, output>>

\* FM.login, flitsmeister.py:52-68
login(username, password) ==
    /\ InFlight < MaxTasks
    /\ Request("login", "parse/login", "POST",
               ("_method" :> "GET") @@ ("username" :> username) @@
               ("password" :> password))

\* FM.user, flitsmeister.py:139-144
user ==
    /\ InFlight < MaxTasks
    /\ IF auth = NoAuth
       THEN Fail("user", "NotauthenticatedException")
       ELSE IF "object_id" \notin DOMAIN auth[1]
            THEN Fail("user", "AttributeError")
            ELSE Request("user", "parse/classes/_User/" \o auth[1]["object_id"],
                         "GET", EmptyMap)

\* (variant: statistics without the check of the held Auth)
statisticsUnchecked ==
    /\ InFlight < MaxTasks
    /\ Request("statistics", "parse/functions/fetchStatistics", "POST", EmptyMap)

\* FM.statistics, flitsmeister.py:189-192
statistics ==
    /\ InFlight < MaxTasks
    /\ IF auth = NoAuth
       THEN Fail("statistics", "NotauthenticatedException")
       ELSE Request("statistics", "parse/functions/fetchStatistics", "POST",
                    EmptyMap)

\* the frame of the steps that end or advance a request in flight
AwaitFrame ==
    UNCHANGED <<session, close_session, ctorAuth, jwtVerifyExp, sessionsCreated,
                sessionClosed, closeCalls, lastRequest, input, output>>

\* (variant: a timeout sends the request again, once)
TimedOutRetries(task) ==
    /\ IF task.sent < 2
       THEN /\ tasks' = (tasks (-) One(task)) (+)
                             One([task EXCEPT !.pc = "request", !.sent = task.sent + 1])
            /\ last' = last
       ELSE /\ tasks' = tasks (-) One(task)
            /\ last' = Report(task.op, task.pc, "timeout", 0, task.sent,
                              Raise("TimeoutError"))
    /\ UNCHANGED <<auth, loginReturned>>
    /\ AwaitFrame

(***************************************************************************)
(* async_timeout.timeout(self._request_timeout), flitsmeister.py:210: the  *)
(* block around session.request and resp.text expires; asyncio's           *)
(* TimeoutError leaves _request and the operation.                         *)
(***************************************************************************)
TimedOut(task) ==
    /\ tasks' = tasks (-) One(task)
    /\ last' = Report(task.op, task.pc, "timeout", 0, task.sent, Raise("TimeoutError"))
    /\ UNCHANGED <<auth, loginReturned>>
    /\ AwaitFrame

\* session.request or resp.text fails: aiohttp's ClientError leaves the operation
TransportFailed(task) ==
    /\ tasks' = tasks (-) One(task)
    /\ last' = Report(task.op, task.pc, "transport", 0, task.sent, Raise("ClientError"))
    /\ UNCHANGED <<auth, loginReturned>>
    /\ AwaitFrame

\* FM._request, flitsmeister.py:219-223: JSON by the declared content type, else text
RequestResult(ctype, body) ==
    IF ctype \in JsonContentTypes
    THEN IF body.shape = "malformed"
         THEN Raise("JSONDecodeError")
         ELSE IF body.shape = "list" THEN Ok(PyList) ELSE Ok(PyDict(body.map))
    ELSE Ok(PyStr)

\* (variant: login keeps the Auth it returns)
LoginReturnStoresAuth(response, now) ==
    LET r == AuthFromDict(response, now, jwtVerifyExp)
    IN  [result |-> r, auth |-> IF r.kind = "ok" THEN <<r.value>> ELSE auth]

\* FM.login, flitsmeister.py:69: what is returned, and the Auth held afterwards
LoginReturn(response, now) ==
    [result |-> AuthFromDict(response, now, jwtVerifyExp), auth |-> auth]

\* FM.user, flitsmeister.py:145
UserReturn(response) ==
    [result |-> UserFromDict(response), auth |-> auth]

\* FM.statistics, flitsmeister.py:193
StatisticsReturn(response) ==
    [result |-> StatisticsFromDict(response), auth |-> auth]

OpReturn(op, response, now) ==
    CASE op = "login" -> LoginReturn(response, now)
      [] op = "user" -> UserReturn(response)
      [] OTHER -> StatisticsReturn(response)

\* session.request(...) is awaited, flitsmeister.py:211-216
AwaitRequest(task) ==
    /\ task.pc = "request"
    /\ \/ TimedOut(task)
       \/ TransportFailed(task)
       \/ /\ tasks' = (tasks (-) One(task)) (+) One([task EXCEPT !.pc = "text"])
          /\ UNCHANGED <<auth, last, loginReturned>>
          /\ AwaitFrame

(***************************************************************************)
(* resp.text("utf-8") is awaited, flitsmeister.py:217; with the body read, *)
(* the rest of _request and of the operation runs without suspension.      *)
(***************************************************************************)
AwaitText(task) ==
    /\ task.pc = "text"
    /\ \/ TimedOut(task)
       \/ TransportFailed(task)
       \/ \E status \in HttpStatuses, ctype \in ContentTypes :
          \E body \in Bodies(task.op, ctype), now \in ClockReadings(task.op) :
             LET r == RequestResult(ctype, body)
                 ret == IF r.kind = "raise"
                        THEN [result |-> r, auth |-> auth]
                        ELSE OpReturn(task.op, r.value, now)
             IN  /\ tasks' = tasks (-) One(task)
                 /\ last' = Report(task.op, task.pc, "response", status, task.sent,
                                   ret.result)
                 /\ auth' = ret.auth
                 /\ loginReturned' =
                        (loginReturned \/ (task.op = "login" /\ ret.result.kind = "ok"))
                 /\ AwaitFrame

\* (variant: any session is closed, owned or not)
ShouldCloseAny == session # "None"

\* (variant: an owned session is closed once only)
ShouldCloseOnce == session # "None" /\ close_session /\ ~sessionClosed

\* FM.close, flitsmeister.py:228: the session is closed when the client owns it
ShouldClose == session # "None" /\ close_session

(***************************************************************************)
(* FM.close, flitsmeister.py:225-229.  session.close() closes the session; *)
(* on a closed session it does nothing.  how is "none" for a direct call,  *)
(* or the kind of exit of the scope.                                       *)
(***************************************************************************)
Close(op, how) ==
    /\ ShouldClose => closeCalls < MaxCloses
    /\ closeCalls' = IF ShouldClose THEN closeCalls + 1 ELSE closeCalls
    /\ sessionClosed' = IF ShouldClose THEN TRUE ELSE sessionClosed
    /\ last' = Report(op, "none", how, 0, 0, Ok(EmptyMap))
    /\ UNCHANGED <<session, close_session, auth, ctorAuth, jwtVerifyExp,
                   sessionsCreated, tasks, lastRequest, loginReturned, input,
                   output>>

close == Close("close", "none")

\* FM.__aexit__, flitsmeister.py:239-245: the scope is left, normally or by an error
aexit(exc_info) == Close("__aexit__", exc_info)

NoInput == [fn |-> "none", data |-> PyStr, now |-> 0]

Init ==
    /\ session \in {"None", "supplied"}
    /\ close_session = FALSE
    /\ jwtVerifyExp \in BOOLEAN
    /\ auth \in CtorAuths(jwtVerifyExp)
    /\ ctorAuth = auth
    /\ sessionsCreated = 0
    /\ sessionClosed = FALSE
    /\ closeCalls = 0
    /\ tasks = EmptyBag
    /\ lastRequest = <<>>
    /\ last = NoReport
    /\ loginReturned = FALSE
    /\ input = NoInput
    /\ output = <<>>

Next ==
    \/ \E u \in Usernames, p \in Passwords : login(u, p)
    \/ user
    \/ statistics
    \/ \E task \in BagToSet(tasks) : AwaitRequest(task)
    \/ \E task \in BagToSet(tasks) : AwaitText(task)
    \/ close
    \/ \E e \in {"normal exit", "error exit"} : aexit(e)

Spec == Init /\ [][Next]_vars

(***************************************************************************)
(* The decoders on their own: the initial states hold the argument, the    *)
(* actions apply Auth.from_dict, User.from_dict and Statistics.from_dict.  *)
(* The arguments are the payloads with every subset of their keys, and     *)
(* the values of _request that are no dict.                                *)
(***************************************************************************)
DecodeInput(fn, data, now) == [fn |-> fn, data |-> data, now |-> now]

NonDicts == {PyStr, PyList}

DecodeInit ==
    /\ session = "None"
    /\ close_session = FALSE
    /\ auth = NoAuth
    /\ ctorAuth = NoAuth
    /\ sessionsCreated = 0
    /\ sessionClosed = FALSE
    /\ closeCalls = 0
    /\ tasks = EmptyBag
    /\ lastRequest = <<>>
    /\ last = NoReport
    /\ loginReturned = FALSE
    /\ output = <<>>
    /\ \/ /\ jwtVerifyExp \in BOOLEAN
          /\ \/ \E K \in SUBSET {"sessionToken", "accessToken"},
                   st \in SessionTokens, at \in AccessTokens, now \in Times :
                   input = DecodeInput("Auth", PyDict(LoginPayload(K, st, at)), now)
             \/ \E d \in NonDicts : input = DecodeInput("Auth", d, 0)
       \/ /\ jwtVerifyExp = FALSE
          /\ \/ \E K \in SUBSET DOMAIN UserSample,
                   S \in SUBSET DOMAIN UserStatisticsSample :
                   input = DecodeInput("User", PyDict(UserPayload(K, S)), 0)
             \/ \E K \in SUBSET DOMAIN UserSample :
                   input = DecodeInput("User", PyDict(UserPayloadFlat(K)), 0)
             \/ \E K \in SUBSET DOMAIN StatisticsSample :
                   input = DecodeInput("Statistics", PyDict(StatisticsPayload(K)), 0)
             \/ \E m \in {EmptyMap, ErrorPayload} :
                   input = DecodeInput("Statistics", PyDict(m), 0)
             \/ \E d \in NonDicts, fn \in {"User", "Statistics"} :
                   input = DecodeInput(fn, d, 0)

DecodeAuth ==
    /\ input.fn = "Auth"
    /\ output = <<>>
    /\ output' = <<AuthFromDict(input.data, input.now, jwtVerifyExp)>>
    /\ UNCHANGED <<clientVars, jwtVerifyExp, input>>

DecodeUser ==
    /\ input.fn = "User"
    /\ output = <<>>
    /\ output' = <<UserFromDict(input.data)>>
    /\ UNCHANGED <<clientVars, jwtVerifyExp, input>>

DecodeStatistics ==
    /\ input.fn = "Statistics"
    /\ output = <<>>
    /\ output' = <<StatisticsFromDict(input.data)>>
    /\ UNCHANGED <<clientVars, jwtVerifyExp, input>>

DecodeNext == DecodeAuth \/ DecodeUser \/ DecodeStatistics

DecodeSpec == DecodeInit /\ [][DecodeNext]_vars

(***************************************************************************)
(* Properties.                                                             *)
(***************************************************************************)
NotAuthenticated == Raise("NotauthenticatedException")
TokenHeader == "x-parse-session-token"
CloseOps == {"close", "__aexit__"}

\* a step of close() or __aexit__() that changes anything
IsCloseStep ==
    /\ last'.op \in CloseOps
    /\ (last' # last \/ closeCalls' # closeCalls)

\* C1: user() and statistics() on a client that holds no Auth end with the
\* not-authenticated error and make no request: none is in flight, none was
\* sent by the call, and the only requests such a client issues are login's.
C1_NoAuthNoRequest ==
    auth = NoAuth =>
        /\ \A task \in BagToSet(tasks) : task.op = "login"
        /\ lastRequest # <<>> => lastRequest[1].path = "parse/login"
        /\ last.op \in {"user", "statistics"} =>
               /\ last.result = NotAuthenticated
               /\ last.sent = 0
               /\ last.at = "none"

C1_Witness ==
    /\ auth = NoAuth
    /\ lastRequest # <<>>
    /\ last.op = "user"
    /\ last.result = NotAuthenticated

\* C2: close(), directly or by leaving the scope (normally or by an error),
\* calls the session's close exactly when the client created the session: a
\* supplied session is never closed by the client, and a created one is closed
\* after every such step.
C2_ClosesOnlyOwnSession ==
    [][ /\ session' = "supplied" => (~sessionClosed' /\ closeCalls' = 0)
        /\ IsCloseStep =>
              IF session = "created"
              THEN sessionClosed' /\ closeCalls' = closeCalls + 1
              ELSE sessionClosed' = sessionClosed /\ closeCalls' = closeCalls
      ]_vars

C2_Witness ==
    /\ session = "created"
    /\ sessionClosed
    /\ last.op = "__aexit__"
    /\ last.cause = "error exit"

\* C3 (as claimed): on a client that created its session, a close() after the
\* session was closed raises nothing and makes no further close call on it.
C3_SecondCloseMakesNoCall ==
    [][ (IsCloseStep /\ session = "created" /\ sessionClosed) =>
            (last'.result.kind = "ok" /\ closeCalls' = closeCalls)
      ]_vars

\* C3 (amended): on a client that created its session, a close() after the
\* session was closed raises nothing and leaves the session closed and the
\* client's session, flag, Auth and calls in flight as they were; it does call
\* the session's close once more.
C3_SecondCloseHarmless ==
    [][ (IsCloseStep /\ session = "created" /\ sessionClosed) =>
            /\ last'.result = Ok(EmptyMap)
            /\ sessionClosed'
            /\ closeCalls' = closeCalls + 1
            /\ UNCHANGED <<session, close_session, auth, sessionsCreated, tasks,
                           lastRequest>>
      ]_vars

C3_Witness ==
    /\ session = "created"
    /\ sessionClosed
    /\ closeCalls = 2
    /\ last.op = "close"

\* C4: no login call changes the held Auth, which stays the one the constructor
\* was given; a client constructed without one still fails user() and
\* statistics() as not authenticated, also after a login that returned an Auth.
C4_LoginKeepsHeldAuth ==
    /\ auth = ctorAuth
    /\ (ctorAuth = NoAuth /\ last.op \in {"user", "statistics"}) =>
           last.result = NotAuthenticated

C4_Witness ==
    /\ ctorAuth = NoAuth
    /\ loginReturned
    /\ last.op = "statistics"
    /\ last.result = NotAuthenticated

\* the access token of a decoder input carries an expiry claim in the past
InputTokenExpired ==
    /\ input.fn = "Auth"
    /\ input.data.py = "dict"
    /\ "accessToken" \in DOMAIN input.data.map
    /\ input.data.map["accessToken"] \in DOMAIN JwtPayload
    /\ "exp" \in DOMAIN JwtPayload[input.data.map["accessToken"]]
    /\ JwtPayload[input.data.map["accessToken"]]["exp"] < input.now

\* C5 (as claimed): decoding a login response whose access token has expired
\* raises nothing; the Auth has both tokens as given and neither object_id nor
\* access_token_expires.
C5_ExpiredTokenLeavesDerivedUnset ==
    (output # <<>> /\ InputTokenExpired) =>
        /\ output[1].kind = "ok"
        /\ output[1].value["session_token"] = Get(input.data.map, "sessionToken")
        /\ output[1].value["access_token"] = Get(input.data.map, "accessToken")
        /\ "object_id" \notin DOMAIN output[1].value
        /\ "access_token_expires" \notin DOMAIN output[1].value

\* the attribute each key of a user payload is decoded into
UserFieldOf ==
    ( "4411EvEnabled" :> "fourfouroneone_ev_enabled" ) @@
    ( "4411ParkingEnabled" :> "fourfouroneone_parking_enabled" ) @@
    ( "4411PaymentMethodSet" :> "fourfouroneone_payment_method_set" ) @@
    ( "accessToken" :> "access_token" ) @@ ( "firstName" :> "first_name" ) @@
    ( "gender" :> "gender" ) @@ ( "has4411Account" :> "has_4411_account" ) @@
    ( "objectId" :> "object_id" ) @@ ( "parkingEnabled" :> "parking_enabled" ) @@
    ( "sessionToken" :> "session_token" ) @@ ( "username" :> "username" ) @@
    ( "vehicleType" :> "vehicle_type" )

UserStatisticsFieldOf ==
    [topSpeed |-> "statistics_top_speed", topSprint |-> "statistics_top_sprint",
     travelDistance |-> "statistics_travel_distance",
     travelTime |-> "statistics_travel_time"]

\* C6 (as claimed): the User and Statistics decoders raise on no mapping (for
\* Statistics: none with the result envelope), and every expected key that is
\* absent, the nested statistics values of a user included, is None in the
\* decoded record.
C6_DecodersLenient ==
    (output # <<>> /\ input.data.py = "dict") =>
        LET m == input.data.map
            out == output[1]
        IN  CASE input.fn = "User" ->
                   /\ out.kind = "ok"
                   /\ \A k \in DOMAIN UserSample \ DOMAIN m :
                          out.value[UserFieldOf[k]] = None
                   /\ \A k \in DOMAIN UserStatisticsSample :
                          ("statistics" \notin DOMAIN m \/ k \notin DOMAIN m["statistics"])
                              => out.value[UserStatisticsFieldOf[k]] = None
              [] input.fn = "Statistics" /\ "result" \in DOMAIN m ->
                   /\ out.kind = "ok"
                   /\ \A k \in DOMAIN StatisticsSample \ DOMAIN m["result"] :
                          out.value[k] = None
              [] OTHER -> TRUE

\* C7 (as claimed): a login whose exchange failed, by a transport failure, a
\* timeout or an HTTP error status, ends with an error, never with an Auth.
C7_FailedLoginRaises ==
    (/\ last.op = "login"
     /\ \/ last.cause \in {"transport", "timeout", "closed"}
        \/ (last.cause = "response" /\ last.status >= 400)) =>
        last.result.kind = "raise"

\* C8: a call whose round trip times out, while the request or while the body
\* is awaited, ends with TimeoutError, which is not the error of a transport
\* failure, and has made one request; no call ever makes a second request.
C8_TimeoutDistinctNoRetry ==
    /\ \A task \in BagToSet(tasks) : task.sent = 1
    /\ last.sent <= 1
    /\ last.cause = "timeout" =>
           /\ last.result = Raise("TimeoutError")
           /\ last.sent = 1
           /\ last.at \in {"request", "text"}
    /\ last.cause = "transport" =>
           /\ last.result = Raise("ClientError")
           /\ last.result # Raise("TimeoutError")

C8_Witness ==
    /\ last.cause = "timeout"
    /\ last.at = "text"
    /\ last.op = "user"

\* C9: the client creates at most one session, none before its first request
\* and none when it was given one; the ownership flag is set exactly when the
\* client created the session. This holds with calls overlapping and after
\* close().
C9_SessionLazyOneShot ==
    /\ sessionsCreated <= 1
    /\ close_session <=> (sessionsCreated = 1)
    /\ (session = "created") <=> (sessionsCreated = 1)
    /\ lastRequest = <<>> => sessionsCreated = 0
    /\ session = "supplied" => sessionsCreated = 0

C9_Witness ==
    /\ sessionsCreated = 1
    /\ InFlight = 2
    /\ sessionClosed

\* C10: every request carries Content-Type: application/json, and carries the
\* session token header, with the held Auth's session token, exactly when an
\* Auth is held, whatever the operation.
C10_RequestHeaders ==
    lastRequest # <<>> =>
        LET h == lastRequest[1].headers
        IN  /\ h["Content-Type"] = "application/json"
            /\ IF auth = NoAuth
               THEN DOMAIN h = {"Content-Type"}
               ELSE /\ DOMAIN h = {"Content-Type", TokenHeader}
                    /\ h[TokenHeader] = auth[1]["session_token"]

C10_Witness ==
    /\ lastRequest # <<>>
    /\ lastRequest[1].path = "parse/login"
    /\ auth # NoAuth
    /\ lastRequest[1].headers[TokenHeader] = "r:s1"

====
